---- MODULE Spec2Model ----
(***************************************************************************)
(* Job status relay of subsidy-form-ui: the Job Store row, the callback    *)
(* endpoint (api/result), the submission endpoint (api/submit), the        *)
(* stream endpoint (api/stream, GET) with its realtime subscription,       *)
(* notification handlers and abort listener, and the client controller     *)
(* (app/page.tsx) with its EventSource handlers.                           *)
(*                                                                         *)
(* Every `await` of the source is a step boundary: an action is the        *)
(* synchronous run of one handler from one resumption to its next await.   *)
(* The stream endpoint writes to a TransformStream built with no           *)
(* strategies, whose readable side holds nothing back for a reader that    *)
(* is not there: an awaited writer.write or writer.close resolves only     *)
(* once a consumer reads stream.readable, and the only consumer is the     *)
(* Response that GET returns in its last statement.                        *)
(***************************************************************************)
EXTENDS Integers, Sequences, FiniteSets, TLC

VARIABLES
  jobs,      \* Job Store: job id -> row (table subsidy_jobs)
  secretCfg, \* process.env.N8N_RESULT_CALLBACK_SECRET ("" when unset)
  ncalls,    \* number of callback requests handled so far
  cbResp,    \* response of the last callback request
  nlogs,     \* number of log lines the external worker has appended
  n8nUrl,    \* process.env.N8N_WEBHOOK_URL ("" when unset)
  subs,      \* submit requests: position, job row created, response
  cpc,       \* stream GET: position of the request handler
  cjob,      \* stream GET: the jobId query parameter
  snap,      \* stream GET: { data, error } of the initial row read
  hidx,      \* stream GET: next index of data.logs the replay loop examines
  closed,    \* stream GET: the `closed` flag
  wclosed,   \* stream GET: writer.close() has been invoked on the writer
  closeTwice, \* stream GET: close() was invoked on a closing or closed writer
  out,       \* stream GET: chunks written to the writer, in call order
  channel,   \* stream GET: "none" | "subscribed" | "removed"
  listener,  \* stream GET: the abort listener is registered on req.signal
  aborted,   \* stream GET: req.signal has fired (client disconnected)
  pending,   \* realtime: change notifications not yet delivered (FIFO)
  handlers,  \* stream GET: postgres_changes handler invocations, by delivery
  page,      \* client: the state of the Page component and its esRef
  ess        \* client: the EventSource objects the page has constructed

streamVars == <<cpc, cjob, snap, hidx, closed, wclosed, closeTwice, out, channel,
                listener, aborted, pending, handlers>>
clientVars == <<page, ess>>
vars == <<jobs, secretCfg, ncalls, cbResp, nlogs, n8nUrl, subs, cpc, cjob, snap, hidx,
          closed, wclosed, closeTwice, out, channel, listener, aborted, pending,
          handlers, page, ess>>

----------------------------------------------------------------------------
(* Bounds of the model *)

MaxWrites == 3   \* Spec: callback requests and worker log appends
MaxCalls == 2    \* StoreSpec, CallbackSpec: callback requests;
                 \* RelaySpec: callback requests and worker log appends
MaxSubmits == 1  \* StoreSpec, RelaySpec: submit requests
MaxRequests == 3 \* SubmitSpec: submit requests
MaxClicks == 3   \* ClientSpec: submissions of the form
MaxEvents == 2   \* ClientSpec: log events the EventSources deliver

----------------------------------------------------------------------------
(* JSON values: a tag and a payload.  JNull is null; JObj(s) stands for    *)
(* the object {summary: s}; JStr(s) for the string s.                      *)

JNull     == [t |-> "null", v |-> ""]
JObj(s)   == [t |-> "obj", v |-> s]
JStr(s)   == [t |-> "str", v |-> s]
LogsNull  == [t |-> "null", v |-> <<>>]
LogsArr(s) == [t |-> "arr", v |-> s]

\* String.prototype.trim() leaves nothing of a whitespace-only line
BlankLines == {"", " "}
NonBlank(line) == line \notin BlankLines

\* the i-th line the worker writes (its text identifies its position)
LineText(i) == "l" \o ToString(i)

\* the row the submission endpoint inserts (submit/route.ts 13-18); logs,
\* result and error take the column defaults
DefaultMessage == "accepted"
NewRow == [status |-> "queued", progress |-> 0, message |-> DefaultMessage,
           logs |-> LogsNull, result |-> JNull, error |-> JNull]

\* page.tsx 142-149: the state of the freshly mounted Page; esRef.current is
\* null (0) and no EventSource exists
PageInit ==
  /\ page = [phase |-> "idle", jobId |-> 0, streamLines |-> <<>>,
             result |-> JNull, fatalError |-> "", esRef |-> 0,
             pc |-> "idle", closure |-> "idle", mounted |-> TRUE,
             nsub |-> 0, nfetch |-> 0, nev |-> 0]
  /\ ess = <<>>

----------------------------------------------------------------------------
(* Callback endpoint: api/result POST *)

\* a request body: a function from the fields present to their values
Opt(f, S) == {<<>>} \cup {(f :> v) : v \in S}
Has(body, f) == f \in DOMAIN body

ClampMutNoFloor(p) == IF p > 100 THEN 100 ELSE p
\* Math.max(0, Math.min(100, body.progress))
Clamp(p) == IF p < 0 THEN 0 ELSE IF p > 100 THEN 100 ELSE p

BuildPatchMutMessage(body) ==
     (IF Has(body, "status") /\ body.status # "" THEN ("status" :> body.status) ELSE <<>>)
  @@ (IF Has(body, "progress") THEN ("progress" :> Clamp(body.progress)) ELSE <<>>)
  @@ ("message" :> (IF Has(body, "message") THEN body.message ELSE ""))
  @@ (IF Has(body, "error") THEN ("error" :> JStr(body.error)) ELSE <<>>)
  @@ (IF Has(body, "result") THEN ("result" :> body.result) ELSE <<>>)
BuildPatchMutLogs(body) ==
     (IF Has(body, "status") /\ body.status # "" THEN ("status" :> body.status) ELSE <<>>)
  @@ (IF Has(body, "progress") THEN ("progress" :> Clamp(body.progress)) ELSE <<>>)
  @@ (IF Has(body, "message") THEN ("message" :> body.message) ELSE <<>>)
  @@ (IF Has(body, "error") THEN ("error" :> JStr(body.error)) ELSE <<>>)
  @@ (IF Has(body, "result") THEN ("result" :> body.result) ELSE <<>>)
  @@ (IF Has(body, "logs") THEN ("logs" :> LogsArr(body.logs)) ELSE <<>>)
\* lines 30-35: only the fields present (status: truthy) enter the patch
BuildPatch(body) ==
     (IF Has(body, "status") /\ body.status # "" THEN ("status" :> body.status) ELSE <<>>)
  @@ (IF Has(body, "progress") THEN ("progress" :> Clamp(body.progress)) ELSE <<>>)
  @@ (IF Has(body, "message") THEN ("message" :> body.message) ELSE <<>>)
  @@ (IF Has(body, "error") THEN ("error" :> JStr(body.error)) ELSE <<>>)
  @@ (IF Has(body, "result") THEN ("result" :> body.result) ELSE <<>>)

\* .update(patch).eq("id", id): the patched row
ApplyPatch(row, patch) == patch @@ row

AuthorizedMutSkip(body) == TRUE
\* line 22: secret && body.secret !== secret  -> unauthorized
Authorized(body) ==
  ~(secretCfg # "" /\ (~Has(body, "secret") \/ body.secret # secretCfg))

\* the store's change notification for an UPDATE of row id: the new row is
\* queued for the channel that is subscribed with filter id=eq.<cjob>
Notify(id, row) ==
  IF channel = "subscribed" /\ id = cjob
    THEN pending' = Append(pending, row)
    ELSE pending' = pending

\* lines 18-46 for a body that is a JSON object; "db down" stands for the
\* message of a store error (line 43)
ResultPOST(body, storeFails) ==
  /\ UNCHANGED clientVars
  /\ ncalls' = ncalls + 1
  /\ UNCHANGED <<secretCfg, n8nUrl, subs, nlogs, cpc, cjob, snap, hidx, closed, wclosed,
                 closeTwice, out, channel, listener, aborted, handlers>>
  /\ IF ~Authorized(body)
       THEN /\ cbResp' = [code |-> 401, ok |-> FALSE, error |-> "unauthorized"]
            /\ UNCHANGED <<jobs, pending>>
     ELSE IF ~Has(body, "jobId")
       THEN /\ cbResp' = [code |-> 400, ok |-> FALSE, error |-> "jobId required"]
            /\ UNCHANGED <<jobs, pending>>
     ELSE IF storeFails
       THEN /\ cbResp' = [code |-> 500, ok |-> FALSE, error |-> "db down"]
            /\ UNCHANGED <<jobs, pending>>
     ELSE /\ cbResp' = [code |-> 200, ok |-> TRUE, error |-> ""]
          /\ IF body.jobId \in DOMAIN jobs
               THEN LET row == ApplyPatch(jobs[body.jobId], BuildPatch(body))
                    IN  /\ jobs' = [jobs EXCEPT ![body.jobId] = row]
                        /\ Notify(body.jobId, row)
               ELSE UNCHANGED <<jobs, pending>>

\* lines 18 and 47-50: req.json() rejects, or the body is null and reading
\* body.secret (or body.jobId) throws: the catch answers 500 with the
\* message of the exception, for which "invalid json" stands
ResultPOSTBadJson ==
  /\ UNCHANGED clientVars
  /\ ncalls' = ncalls + 1
  /\ cbResp' = [code |-> 500, ok |-> FALSE, error |-> "invalid json"]
  /\ UNCHANGED <<jobs, secretCfg, n8nUrl, subs, nlogs>>
  /\ UNCHANGED streamVars

----------------------------------------------------------------------------
(* External worker: appends one line to the logs column of a job *)

WorkerAppendLog(id, blank) ==
  /\ UNCHANGED clientVars
  /\ id \in DOMAIN jobs
  /\ nlogs' = nlogs + 1
  /\ LET line == IF blank THEN " " ELSE LineText(nlogs + 1)
         row  == [jobs[id] EXCEPT !.logs = LogsArr(Append(jobs[id].logs.v, line))]
     IN  /\ jobs' = [jobs EXCEPT ![id] = row]
         /\ Notify(id, row)
  /\ UNCHANGED <<secretCfg, n8nUrl, subs, ncalls, cbResp, cpc, cjob, snap, hidx, closed,
                 wclosed, closeTwice, out, channel, listener, aborted, handlers>>

----------------------------------------------------------------------------
(* Stream endpoint: api/stream GET *)

\* sse(data, event): one event of the text/event-stream, "event: e\ndata: d\n\n"
sse(data, event) == [event |-> event, data |-> data]

\* safeJson(x): JSON.stringify(x)
safeJson(x) ==
  CASE x.t = "null" -> "null"
    [] x.t = "obj"  -> "{\"summary\":\"" \o x.v \o "\"}"
    [] x.t = "str"  -> "\"" \o x.v \o "\""

\* n.error ?? "job error"
ErrorText(row) == IF row.error = JNull THEN "job error" ELSE row.error.v

\* write(chunk), lines 43-46: nothing when `closed`; otherwise writer.write,
\* which rejects once close() has been invoked on the writer
WriteRejects == ~closed /\ wclosed
Written(chunk) == IF closed \/ wclosed THEN out ELSE Append(out, chunk)

\* lines 80 and 143: status === "done" && result != null
ResultReady(row) == row.status = "done" /\ row.result # JNull

\* the terminal event of a row, when it has one
IsTerminalRow(row) == row.status = "error" \/ ResultReady(row)
TerminalChunk(row) ==
  IF row.status = "error" THEN sse(ErrorText(row), "error")
                          ELSE sse(safeJson(row.result), "result")

NoSnap == [err |-> FALSE, msg |-> "", found |-> FALSE, row |-> NewRow]

\* line 49: the acknowledgment, sse("connected", "log")
AckMutError == sse("connected", "error")
Ack == sse("connected", "log")

\* lines 30-49: the stream is created and the acknowledgment written
Connect(id) ==
  /\ UNCHANGED clientVars
  /\ cpc = "idle"
  /\ cjob' = id
  /\ IF id = 0
       THEN /\ cpc' = "bad_request"
            /\ out' = out
       ELSE /\ cpc' = "w_conn"
            /\ out' = Written(Ack)
  /\ UNCHANGED <<jobs, secretCfg, n8nUrl, subs, ncalls, cbResp, nlogs, snap, hidx, closed,
                 wclosed, closeTwice, channel, listener, aborted, pending,
                 handlers>>

\* lines 38 and 170-176: stream.readable gets its one consumer, the body of
\* the Response, when GET returns
ReaderAttached == cpc = "returned"

\* an awaited writer.write(chunk) or writer.close() of lines 45-46, 61, 82,
\* 95, 137, 145: the readable side of `new TransformStream()` has
\* highWaterMark 0, so the promise stays pending until a consumer reads
WriteResolves == ReaderAttached

\* lines 49-57: the await of the acknowledgment resolves, then the one read
\* of the row (maybeSingle: no row is data = null)
ReadRow ==
  /\ UNCHANGED clientVars
  /\ cpc = "w_conn"
  /\ WriteResolves
  /\ cpc' = "got_row"
  /\ \E readFails \in BOOLEAN :
       snap' = IF readFails THEN [NoSnap EXCEPT !.err = TRUE, !.msg = "read failed"]
               ELSE IF cjob \in DOMAIN jobs
                 THEN [NoSnap EXCEPT !.found = TRUE, !.row = jobs[cjob]]
                 ELSE NoSnap
  /\ UNCHANGED <<jobs, secretCfg, n8nUrl, subs, ncalls, cbResp, nlogs, cjob, hidx, closed,
                 wclosed, closeTwice, out, channel, listener, aborted, pending,
                 handlers>>

\* index of the first non-blank entry of lines at or after i, 0 when none
NextLine(lines, i) ==
  LET c == {k \in i..Len(lines) : NonBlank(lines[k])}
  IN  IF c = {} THEN 0 ELSE CHOOSE k \in c : \A m \in c : k <= m

\* lines 72-105 and 109-176, from entry i of the replay loop up to the next
\* await: the next log line, else the terminal event, else the subscription
\* and the abort listener
ReplayFrom(i) ==
  LET row  == snap.row
      next == IF row.logs.t = "arr" THEN NextLine(row.logs.v, i) ELSE 0
  IN  IF next # 0
        THEN /\ out' = Written(sse(row.logs.v[next], "log"))
             /\ hidx' = next + 1
             /\ cpc' = "h_w"
             /\ UNCHANGED <<channel, listener>>
      ELSE IF IsTerminalRow(row)
        THEN /\ out' = Written(TerminalChunk(row))
             /\ cpc' = "t_w"
             /\ UNCHANGED <<hidx, channel, listener>>
      ELSE   /\ channel' = "subscribed"
             /\ listener' = TRUE
             /\ cpc' = "returned"
             /\ UNCHANGED <<hidx, out>>

\* line 59: error || !data
ReadFailed(sn) == sn.err \/ ~sn.found

\* lines 59-70, else the start of the replay
AfterRead ==
  /\ UNCHANGED clientVars
  /\ cpc = "got_row"
  /\ IF ReadFailed(snap)
       THEN /\ out' = Written(sse(IF snap.err THEN snap.msg ELSE "job not found", "error"))
            /\ cpc' = "t_w"
            /\ UNCHANGED <<hidx, channel, listener>>
       ELSE ReplayFrom(1)
  /\ UNCHANGED <<jobs, secretCfg, n8nUrl, subs, ncalls, cbResp, nlogs, cjob, snap, closed,
                 wclosed, closeTwice, aborted, pending, handlers>>

\* line 75 resumes
ReplayResume ==
  /\ UNCHANGED clientVars
  /\ cpc = "h_w"
  /\ WriteResolves
  /\ ReplayFrom(hidx)
  /\ UNCHANGED <<jobs, secretCfg, n8nUrl, subs, ncalls, cbResp, nlogs, cjob, snap, closed,
                 wclosed, closeTwice, aborted, pending, handlers>>

\* lines 61, 82, 95: await writer.close()
CloseMain ==
  /\ UNCHANGED clientVars
  /\ cpc = "t_w"
  /\ WriteResolves
  /\ cpc' = "t_c"
  /\ wclosed' = TRUE
  /\ closeTwice' = (closeTwice \/ wclosed)
  /\ UNCHANGED <<jobs, secretCfg, n8nUrl, subs, ncalls, cbResp, nlogs, cjob, snap, hidx,
                 closed, out, channel, listener, aborted, pending, handlers>>

\* lines 62-63, 83-84, 96-97: closed = true; return the response
ReturnMain ==
  /\ UNCHANGED clientVars
  /\ cpc = "t_c"
  /\ WriteResolves
  /\ cpc' = "returned"
  /\ closed' = TRUE
  /\ UNCHANGED <<jobs, secretCfg, n8nUrl, subs, ncalls, cbResp, nlogs, cjob, snap, hidx,
                 wclosed, closeTwice, out, channel, listener, aborted, pending,
                 handlers>>

----------------------------------------------------------------------------
(* Stream endpoint: the postgres_changes handler, lines 119-150 *)

\* lines 126-130: n.logs[n.logs.length - 1], "" when there is none
LastLine(row) ==
  IF row.logs.t = "arr" /\ Len(row.logs.v) > 0
    THEN row.logs.v[Len(row.logs.v)] ELSE ""

\* lines 135-149 up to the await of the terminal write: the position the
\* handler is left in
StatusCheckPc(row) ==
  IF IsTerminalRow(row) THEN (IF WriteRejects THEN "threw" ELSE "t_w") ELSE "done"
StatusCheckOut(row) ==
  IF IsTerminalRow(row) THEN Written(TerminalChunk(row)) ELSE out

\* a notification is delivered: the handler runs up to its first await
Deliver ==
  /\ UNCHANGED clientVars
  /\ channel = "subscribed"
  /\ pending # <<>>
  /\ pending' = Tail(pending)
  /\ LET row == Head(pending)
     IN  IF NonBlank(LastLine(row))
           THEN /\ out' = Written(sse(LastLine(row), "log"))
                /\ handlers' = Append(handlers,
                     [pc |-> IF WriteRejects THEN "threw" ELSE "l_w", row |-> row])
           ELSE /\ out' = StatusCheckOut(row)
                /\ handlers' = Append(handlers, [pc |-> StatusCheckPc(row), row |-> row])
  /\ UNCHANGED <<jobs, secretCfg, n8nUrl, subs, ncalls, cbResp, nlogs, cpc, cjob, snap, hidx,
                 closed, wclosed, closeTwice, channel, listener, aborted>>

\* line 131 resumes
HandlerResumeLog(k) ==
  /\ UNCHANGED clientVars
  /\ k \in DOMAIN handlers
  /\ handlers[k].pc = "l_w"
  /\ WriteResolves
  /\ out' = StatusCheckOut(handlers[k].row)
  /\ handlers' = [handlers EXCEPT ![k].pc = StatusCheckPc(handlers[k].row)]
  /\ UNCHANGED <<jobs, secretCfg, n8nUrl, subs, ncalls, cbResp, nlogs, cpc, cjob, snap, hidx,
                 closed, wclosed, closeTwice, channel, listener, aborted, pending>>

\* lines 137, 145: await writer.close(), which rejects on a writer that is
\* closing or closed
HandlerClose(k) ==
  /\ UNCHANGED clientVars
  /\ k \in DOMAIN handlers
  /\ handlers[k].pc = "t_w"
  /\ WriteResolves
  /\ handlers' = [handlers EXCEPT ![k].pc = IF wclosed THEN "threw" ELSE "c_w"]
  /\ wclosed' = TRUE
  /\ closeTwice' = (closeTwice \/ wclosed)
  /\ UNCHANGED <<jobs, secretCfg, n8nUrl, subs, ncalls, cbResp, nlogs, cpc, cjob, snap, hidx,
                 closed, out, channel, listener, aborted, pending>>

\* lines 138-140, 146-148: closed = true; removeChannel(channel)
HandlerFinish(k) ==
  /\ UNCHANGED clientVars
  /\ k \in DOMAIN handlers
  /\ handlers[k].pc = "c_w"
  /\ WriteResolves
  /\ handlers' = [handlers EXCEPT ![k].pc = "done"]
  /\ closed' = TRUE
  /\ channel' = "removed"
  /\ pending' = <<>>
  /\ UNCHANGED <<jobs, secretCfg, n8nUrl, subs, ncalls, cbResp, nlogs, cpc, cjob, snap, hidx,
                 wclosed, closeTwice, out, listener, aborted>>

\* The client disconnects: req.signal fires once.  The abort listener of
\* lines 155-168 runs when it is registered by then (line 155 lies after the
\* await of line 49); a listener added to a signal that has already fired
\* is never called.
ClientDisconnect ==
  /\ UNCHANGED clientVars
  /\ cpc \notin {"idle", "bad_request"}
  /\ ~aborted
  /\ aborted' = TRUE
  /\ IF listener
       THEN /\ channel' = "removed"
            /\ pending' = <<>>
            /\ closed' = TRUE
            /\ wclosed' = (wclosed \/ ~closed)
            /\ closeTwice' = (closeTwice \/ (~closed /\ wclosed))
       ELSE UNCHANGED <<channel, pending, closed, wclosed, closeTwice>>
  /\ UNCHANGED <<jobs, secretCfg, n8nUrl, subs, ncalls, cbResp, nlogs, cpc, cjob, snap, hidx,
                 out, listener, handlers>>

----------------------------------------------------------------------------
(* Specification of the stream endpoint against one submitted job *)

StreamInit ==
  /\ cpc = "idle" /\ cjob = 0 /\ snap = NoSnap /\ hidx = 1
  /\ closed = FALSE /\ wclosed = FALSE /\ closeTwice = FALSE
  /\ out = <<>> /\ channel = "none" /\ listener = FALSE /\ aborted = FALSE
  /\ pending = <<>> /\ handlers = <<>>

\* the store holds the row of one accepted submission
Init ==
  /\ jobs = (1 :> NewRow)
  /\ secretCfg = "" /\ n8nUrl = "http://n8n"
  /\ subs = <<[pc |-> "done", job |-> 1, code |-> 200, ok |-> TRUE, jobId |-> 1,
              error |-> ""]>>
  /\ ncalls = 0 /\ cbResp = [code |-> 0, ok |-> FALSE, error |-> ""] /\ nlogs = 0
  /\ StreamInit
  /\ PageInit

\* the callback bodies the worker sends while a stream is watched
StreamBodies ==
  {("jobId" :> 1) @@ a @@ b @@ c :
     a \in Opt("status", {"running", "done", "error"}),
     b \in Opt("result", {JObj("ok")}),
     c \in Opt("error", {"boom"})}

\* The steps of GET after line 49 (ReadRow, AfterRead, ReplayResume,
\* CloseMain, ReturnMain) and of the notification handlers (Deliver,
\* HandlerResumeLog, HandlerClose, HandlerFinish) are no steps of the
\* endpoint: ReadRow waits for WriteResolves at a position where
\* ReaderAttached is false, and each of the others follows a ReadRow.
Next ==
  \/ \E body \in StreamBodies : ncalls + nlogs < MaxWrites /\ ResultPOST(body, FALSE)
  \/ \E blank \in BOOLEAN : ncalls + nlogs < MaxWrites /\ WorkerAppendLog(1, blank)
  \/ \E id \in {0, 1, 2} : Connect(id)
  \/ ClientDisconnect

Spec == Init /\ [][Next]_vars

----------------------------------------------------------------------------
(* Submission endpoint: api/submit POST *)

\* the request has been answered
Responded(k) == subs[k].pc = "done"

\* lines 53-56: the response of the catch block, { ok: false, error: msg }
\* with status 500; `job` is the row the request had created before the throw
CatchResponseMutJobId(job, msg) ==
  [pc |-> "done", job |-> job, code |-> 500, ok |-> FALSE, jobId |-> job, error |-> msg]
CatchResponse(job, msg) ==
  [pc |-> "done", job |-> job, code |-> 500, ok |-> FALSE, jobId |-> 0, error |-> msg]

\* lines 8-30: the body is parsed and the row inserted; then the worker
\* address is looked up.  The store gives every inserted row a fresh id.
\* A body that is not JSON throws into the catch block; a failed insert is
\* answered with the store's message, here "db down"; "N8N_WEBHOOK_URL unset"
\* stands for the text of line 29.
SubmitInsert(parseFails, insertFails) ==
  /\ UNCHANGED clientVars
  /\ LET id == Cardinality(DOMAIN jobs) + 1
     IN  IF parseFails
           THEN /\ subs' = Append(subs, CatchResponse(0, "invalid json"))
                /\ jobs' = jobs
         ELSE IF insertFails
           THEN /\ subs' = Append(subs, [pc |-> "done", job |-> 0, code |-> 500,
                                         ok |-> FALSE, jobId |-> 0, error |-> "db down"])
                /\ jobs' = jobs
           ELSE /\ jobs' = jobs @@ (id :> NewRow)
                /\ subs' = Append(subs,
                     IF n8nUrl = ""
                       THEN [pc |-> "done", job |-> id, code |-> 500, ok |-> FALSE,
                             jobId |-> 0, error |-> "N8N_WEBHOOK_URL unset"]
                       ELSE [pc |-> "fetching", job |-> id, code |-> 0, ok |-> FALSE,
                             jobId |-> 0, error |-> ""])
  /\ UNCHANGED <<secretCfg, n8nUrl, ncalls, cbResp, nlogs>>
  /\ UNCHANGED streamVars

\* what the dispatch of lines 33-40 meets: the worker accepts, the worker
\* answers a non-success status with a body text (fire.status, text), or
\* fetch throws
WorkerAnswers ==
  {[kind |-> "ok", status |-> 200, text |-> ""],
   [kind |-> "rejected", status |-> 500, text |-> "workflow crashed"],
   [kind |-> "rejected", status |-> 404, text |-> ""],
   [kind |-> "unreachable", status |-> 0, text |-> ""]}

\* lines 33-52: the worker's answer to the dispatch.  A rejected dispatch
\* goes on to the update of line 43: until then `code` and `error` of the
\* request hold fire.status and text.  A thrown fetch is caught at line 53.
SubmitFetch(k, answer) ==
  /\ UNCHANGED clientVars
  /\ k \in DOMAIN subs
  /\ subs[k].pc = "fetching"
  /\ subs' = [subs EXCEPT ![k] =
       CASE answer.kind = "ok" ->
              [pc |-> "done", job |-> @.job, code |-> 200, ok |-> TRUE, jobId |-> @.job,
               error |-> ""]
         [] answer.kind = "rejected" ->
              [@ EXCEPT !.pc = "marking", !.code = answer.status, !.error = answer.text]
         [] answer.kind = "unreachable" -> CatchResponse(@.job, "fetch failed")]
  /\ UNCHANGED <<jobs, secretCfg, n8nUrl, ncalls, cbResp, nlogs>>
  /\ UNCHANGED streamVars

\* lines 42-50: the job is set to error with text || `n8n error ${status}`
\* (the outcome of the update is not looked at) and the 502 response carries
\* the job id and text || "n8n webhook error"
SubmitMarkError(k, storeFails) ==
  /\ UNCHANGED clientVars
  /\ k \in DOMAIN subs
  /\ subs[k].pc = "marking"
  /\ subs' = [subs EXCEPT ![k] =
       [pc |-> "done", job |-> @.job, code |-> 502, ok |-> FALSE, jobId |-> @.job,
        error |-> IF @.error = "" THEN "n8n webhook error" ELSE @.error]]
  /\ LET id   == subs[k].job
         text == IF subs[k].error = "" THEN "n8n error " \o ToString(subs[k].code)
                                       ELSE subs[k].error
         row  == [jobs[id] EXCEPT !.status = "error", !.error = JStr(text),
                                  !.message = "launch failed"]
     IN  IF storeFails
           THEN UNCHANGED <<jobs, pending>>
           ELSE /\ jobs' = [jobs EXCEPT ![id] = row]
                /\ Notify(id, row)
  /\ UNCHANGED <<secretCfg, n8nUrl, ncalls, cbResp, nlogs, cpc, cjob, snap,
                 hidx, closed, wclosed, closeTwice, out, channel, listener,
                 aborted, handlers>>

----------------------------------------------------------------------------
(* Client controller: app/page.tsx, Page.  `page` holds the React state   *)
(* (phase, jobId, streamLines, result, fatalError), esRef.current (0 for   *)
(* null, else an index of ess), the position of the running onSubmit (pc), *)
(* the `phase` constant its closure captured, and whether the component is *)
(* mounted.  ess[k] is the k-th EventSource: its readyState, the job of    *)
(* its URL, the `phase` its handlers captured, and whether a result or     *)
(* error event has been dispatched at it.  page.nsub counts the submit     *)
(* events, page.nfetch the calls of fetch("/api/submit") among them.       *)

MaxLines == 200

\* the texts the page shows, for "ストリームエラー。" and "ストリームが切断された。"
StreamErrorText == "stream error"
DisconnectedText == "stream disconnected"

\* setState of an unmounted component changes nothing
Render(p, q) ==
  IF p.mounted THEN q
  ELSE [q EXCEPT !.phase = p.phase, !.jobId = p.jobId, !.result = p.result,
                 !.streamLines = p.streamLines, !.fatalError = p.fatalError]

\* lines 157-162, closeStream(): esRef.current is closed and set to null
closeStreamMutKeepOpen(p, es) ==
  [page |-> [p EXCEPT !.esRef = 0], ess |-> es]
closeStream(p, es) ==
  IF p.esRef # 0
    THEN [page |-> [p EXCEPT !.esRef = 0],
          ess  |-> [es EXCEPT ![p.esRef].state = "closed"]]
    ELSE [page |-> p, ess |-> es]

\* lines 165-170, pushLine(text): the last 200 lines are kept
pushLine(lines, text) ==
  LET next == Append(lines, text)
  IN  IF Len(next) > MaxLines
        THEN SubSeq(next, Len(next) - MaxLines + 1, Len(next))
        ELSE next

\* JSON.parse on the texts safeJson produces; anything else throws
JsonValues == {JNull, JObj("ok"), JStr("ok")}
JSONparse(raw) ==
  IF \E x \in JsonValues : safeJson(x) = raw
    THEN [ok |-> TRUE, v |-> CHOOSE x \in JsonValues : safeJson(x) = raw]
    ELSE [ok |-> FALSE, v |-> JNull]

\* lines 172-186: the form is submitted (the button is disabled while the
\* phase is submitting or streaming); `valid` is canSubmit
onSubmit(valid) ==
  /\ page.mounted
  /\ page.phase \notin {"submitting", "streaming"}
  /\ page' = [page EXCEPT !.fatalError = "", !.result = JNull,
                          !.streamLines = <<>>, !.jobId = 0,
                          !.phase = IF valid THEN "submitting" ELSE "idle",
                          !.pc = IF valid THEN "fetching" ELSE "idle",
                          !.closure = page.phase,
                          !.nsub = @ + 1,
                          !.nfetch = IF valid THEN @ + 1 ELSE @]
  /\ UNCHANGED ess
  /\ UNCHANGED <<jobs, secretCfg, n8nUrl, subs, ncalls, cbResp, nlogs>>
  /\ UNCHANGED streamVars

\* what `await fetch("/api/submit")` and `res.json()` give the page: the
\* responses of the submission endpoint, a body that is not JSON (an error
\* page of a proxy), or a rejected fetch
SubmitAnswers ==
  {[kind |-> "json", http |-> 200, ok |-> TRUE, jobId |-> j, error |-> ""] : j \in {1, 2}}
  \cup
  {[kind |-> "json", http |-> 502, ok |-> FALSE, jobId |-> 1, error |-> "n8n error"],
   [kind |-> "json", http |-> 500, ok |-> FALSE, jobId |-> 0, error |-> "insert failed"],
   [kind |-> "text", http |-> 504, ok |-> FALSE, jobId |-> 0, error |-> ""],
   [kind |-> "threw", http |-> 0, ok |-> FALSE, jobId |-> 0, error |-> "Failed to fetch"]}

\* line 213: !res.ok || !data?.ok || !data.jobId
SubmitRefusedMutJobIdOnly(ans) == ans.jobId = 0
SubmitRefused(ans) ==
  \/ ans.http \notin 200..299
  \/ ans.kind # "json"
  \/ ~ans.ok
  \/ ans.jobId = 0

\* lines 201-231 and 272-276: onSubmit resumes with the answer; on success
\* the EventSource is constructed and its handlers registered
onSubmitResume(ans) ==
  /\ page.pc = "fetching"
  /\ IF ans.kind = "threw"
       THEN /\ page' = Render(page, [page EXCEPT !.fatalError = ans.error,
                                                 !.phase = "error", !.pc = "idle"])
            /\ ess' = ess
     ELSE IF SubmitRefused(ans)
       THEN /\ page' = Render(page,
                 [page EXCEPT !.fatalError =
                                 IF ans.kind = "json" /\ ans.error # ""
                                   THEN ans.error
                                   ELSE "submit failed: " \o ToString(ans.http),
                              !.phase = "error", !.pc = "idle"])
            /\ ess' = ess
     ELSE LET p1 == Render(page, [page EXCEPT !.jobId = ans.jobId,
                                              !.phase = "streaming", !.pc = "idle"])
              c  == closeStream(p1, ess)
              p2 == Render(c.page,
                      [c.page EXCEPT !.streamLines =
                         pushLine(pushLine(@, "started"), "diagnosing")])
          IN  /\ ess' = Append(c.ess, [state |-> "connecting", job |-> ans.jobId,
                                       closure |-> page.closure, term |-> FALSE])
              /\ page' = [p2 EXCEPT !.esRef = Len(c.ess) + 1]
  /\ UNCHANGED <<jobs, secretCfg, n8nUrl, subs, ncalls, cbResp, nlogs>>
  /\ UNCHANGED streamVars

\* line 231: the "open" listener
onOpen(k) ==
  /\ k \in DOMAIN ess
  /\ ess[k].state = "connecting"
  /\ ess' = [ess EXCEPT ![k].state = "open"]
  /\ page' = Render(page, [page EXCEPT !.streamLines = pushLine(@, "stream connected")])
  /\ UNCHANGED <<jobs, secretCfg, n8nUrl, subs, ncalls, cbResp, nlogs>>
  /\ UNCHANGED streamVars

\* lines 233-236: the "log" listener
onLog(k, msg) ==
  /\ k \in DOMAIN ess
  /\ ess[k].state = "open"
  /\ page' = Render(page,
       [page EXCEPT !.streamLines = IF NonBlank(msg) THEN pushLine(@, msg) ELSE @,
                    !.nev = @ + 1])
  /\ UNCHANGED ess
  /\ UNCHANGED <<jobs, secretCfg, n8nUrl, subs, ncalls, cbResp, nlogs>>
  /\ UNCHANGED streamVars

\* lines 238-252: the "result" listener
onResult(k, raw) ==
  /\ k \in DOMAIN ess
  /\ ess[k].state = "open"
  /\ LET parsed == IF JSONparse(raw).ok THEN JSONparse(raw).v
                                        ELSE [t |-> "resultText", v |-> raw]
         p1 == Render(page, [page EXCEPT !.result = parsed,
                                         !.streamLines = pushLine(@, "diagnosis done"),
                                         !.phase = "done"])
         c  == closeStream(p1, [ess EXCEPT ![k].term = TRUE])
     IN  page' = c.page /\ ess' = c.ess
  /\ UNCHANGED <<jobs, secretCfg, n8nUrl, subs, ncalls, cbResp, nlogs>>
  /\ UNCHANGED streamVars

\* lines 254-271: an event of type "error" is dispatched at the EventSource:
\* a server-sent `event: error` with data `raw`, or (raw = "") the plain
\* Event of a transport error, before which the browser has set readyState
\* to CLOSED (`fatal`) or to CONNECTING (it will reconnect).  The listener
\* added at line 254 runs, then the es.onerror handler set at line 263,
\* whose `phase` is the one its closure captured.
onError(k, raw, fatal) ==
  /\ k \in DOMAIN ess
  /\ IF raw = "" THEN ess[k].state \in {"connecting", "open"}
                 ELSE ess[k].state = "open"
  /\ LET es0 == [ess EXCEPT ![k].term = TRUE,
                            ![k].state = IF raw # "" THEN @
                                         ELSE IF fatal THEN "closed" ELSE "connecting"]
         msg == IF raw # "" THEN raw ELSE StreamErrorText
         p1  == Render(page, [page EXCEPT !.fatalError = msg,
                                          !.streamLines = pushLine(@, "error: " \o msg),
                                          !.phase = "error"])
         c1  == closeStream(p1, es0)
         p2  == Render(c1.page,
                  [c1.page EXCEPT !.fatalError = DisconnectedText,
                                  !.streamLines = pushLine(@, "stream cut"),
                                  !.phase = "error"])
         c2  == IF ess[k].closure # "done" THEN closeStream(p2, c1.ess) ELSE c1
     IN  page' = c2.page /\ ess' = c2.ess
  /\ UNCHANGED <<jobs, secretCfg, n8nUrl, subs, ncalls, cbResp, nlogs>>
  /\ UNCHANGED streamVars

UnmountMutNoClose ==
  /\ page.mounted
  /\ page' = [page EXCEPT !.mounted = FALSE]
  /\ UNCHANGED ess
  /\ UNCHANGED <<jobs, secretCfg, n8nUrl, subs, ncalls, cbResp, nlogs>>
  /\ UNCHANGED streamVars
\* line 163: the cleanup of the mount effect
Unmount ==
  /\ page.mounted
  /\ LET c == closeStream([page EXCEPT !.mounted = FALSE], ess)
     IN  page' = c.page /\ ess' = c.ess
  /\ UNCHANGED <<jobs, secretCfg, n8nUrl, subs, ncalls, cbResp, nlogs>>
  /\ UNCHANGED streamVars

\* line 448: the button that clears the shown lines
clearLines ==
  /\ page.mounted
  /\ page.phase \in {"streaming", "done", "error"}
  /\ page.streamLines # <<>>
  /\ page' = [page EXCEPT !.streamLines = <<>>]
  /\ UNCHANGED ess
  /\ UNCHANGED <<jobs, secretCfg, n8nUrl, subs, ncalls, cbResp, nlogs>>
  /\ UNCHANGED streamVars

----------------------------------------------------------------------------
(* Specification of the Job Store under submissions and callbacks *)

StoreInit ==
  /\ jobs = <<>>
  /\ secretCfg \in {"", "s3cr3t"}
  /\ n8nUrl \in {"", "http://n8n"}
  /\ subs = <<>>
  /\ ncalls = 0 /\ cbResp = [code |-> 0, ok |-> FALSE, error |-> ""] /\ nlogs = 0
  /\ StreamInit
  /\ PageInit

\* the progress values the worker reports: below, within and above 0..100
ProgressInputs == {-5, 40, 250}

\* the data fields a callback body may carry, at most two of them at once
DataFields ==
  {a @@ b @@ c @@ d @@ e :
     a \in Opt("status", {"", "running", "done", "error"}),
     b \in Opt("progress", ProgressInputs),
     c \in Opt("message", {"processing"}),
     d \in Opt("error", {"boom"}),
     e \in Opt("result", {JNull, JObj("ok")})}
\* with the job id and the right secret: every such choice of data fields;
\* with a wrong or missing secret, or no job id: three of them
StoreBodies ==
  {("jobId" :> 1) @@ ("secret" :> "s3cr3t") @@ f :
     f \in {g \in DataFields : Cardinality(DOMAIN g) <= 2}}
  \cup
  {j @@ x @@ f :
     j \in Opt("jobId", {1}),
     x \in Opt("secret", {"s3cr3t", "wrong"}),
     f \in {<<>>, ("progress" :> 250),
            ("status" :> "done") @@ ("result" :> JObj("ok"))}}

StoreNext ==
  \/ \E body \in StoreBodies, storeFails \in BOOLEAN :
       ncalls < MaxCalls /\ ResultPOST(body, storeFails)
  \/ ncalls < MaxCalls /\ ResultPOSTBadJson
  \/ \E parseFails, insertFails \in BOOLEAN :
       Len(subs) < MaxSubmits /\ SubmitInsert(parseFails, insertFails)
  \/ \E k \in DOMAIN subs, answer \in WorkerAnswers : SubmitFetch(k, answer)
  \/ \E k \in DOMAIN subs, storeFails \in BOOLEAN : SubmitMarkError(k, storeFails)

StoreSpec == StoreInit /\ [][StoreNext]_vars

----------------------------------------------------------------------------
(* Specification of the callback endpoint against one submitted job *)

CallbackInit ==
  /\ jobs = (1 :> NewRow)
  /\ secretCfg \in {"", "s3cr3t"}
  /\ n8nUrl = "http://n8n"
  /\ subs = <<[pc |-> "done", job |-> 1, code |-> 200, ok |-> TRUE, jobId |-> 1,
              error |-> ""]>>
  /\ ncalls = 0 /\ cbResp = [code |-> 0, ok |-> FALSE, error |-> ""] /\ nlogs = 0
  /\ StreamInit
  /\ PageInit

CallbackNext ==
  \/ \E body \in StoreBodies, storeFails \in BOOLEAN :
       ncalls < MaxCalls /\ ResultPOST(body, storeFails)
  \/ ncalls < MaxCalls /\ ResultPOSTBadJson

CallbackSpec == CallbackInit /\ [][CallbackNext]_vars

----------------------------------------------------------------------------
(* Specification of the submission endpoint alone: concurrent requests *)

SubmitInit ==
  /\ jobs = <<>>
  /\ secretCfg = ""
  /\ n8nUrl \in {"", "http://n8n"}
  /\ subs = <<>>
  /\ ncalls = 0 /\ cbResp = [code |-> 0, ok |-> FALSE, error |-> ""] /\ nlogs = 0
  /\ StreamInit
  /\ PageInit

SubmitNext ==
  \/ \E parseFails, insertFails \in BOOLEAN :
       Len(subs) < MaxRequests /\ SubmitInsert(parseFails, insertFails)
  \/ \E k \in DOMAIN subs, answer \in WorkerAnswers : SubmitFetch(k, answer)
  \/ \E k \in DOMAIN subs, storeFails \in BOOLEAN : SubmitMarkError(k, storeFails)

SubmitSpec == SubmitInit /\ [][SubmitNext]_vars

----------------------------------------------------------------------------
(* Specification of the whole relay: the page submits its form, the        *)
(* submission endpoint serves the request, the page takes the answer and,  *)
(* when it accepts it, opens its EventSource, whose request the stream     *)
(* endpoint serves; the worker calls back and appends log lines meanwhile  *)

\* a callback body that carries a `logs` array next to a message
LogsBodies ==
  {("jobId" :> 1) @@ ("message" :> "with logs") @@ ("logs" :> <<"x">>)}

RelayInit ==
  /\ jobs = <<>>
  /\ secretCfg = "" /\ n8nUrl = "http://n8n"
  /\ subs = <<>>
  /\ ncalls = 0 /\ cbResp = [code |-> 0, ok |-> FALSE, error |-> ""] /\ nlogs = 0
  /\ StreamInit
  /\ PageInit

\* the answer of the k-th Submit request as the page receives it: the
\* endpoint always answers JSON
AnswerOf(k) ==
  [kind |-> "json", http |-> subs[k].code, ok |-> subs[k].ok, jobId |-> subs[k].jobId,
   error |-> subs[k].error]

\* page.tsx lines 202-207: the request of the page's fetch reaches the
\* submission endpoint; the body is the JSON text of the payload
PageRequest(insertFails) ==
  /\ page.pc = "fetching"
  /\ Len(subs) < page.nfetch
  /\ SubmitInsert(FALSE, insertFails)

\* page.tsx lines 209-229: the page's fetch resolves with the answer of its
\* request and onSubmit runs on
PageReceive(k) ==
  /\ k = page.nfetch
  /\ Responded(k)
  /\ onSubmitResume(AnswerOf(k))

\* page.tsx lines 227-228: the request of the EventSource the page has
\* constructed reaches the stream endpoint
StreamRequest(k) ==
  /\ ess[k].state = "connecting"
  /\ Connect(ess[k].job)

\* page.tsx lines 157-162: es.close() ends the request of the connection,
\* and its req.signal fires
PageDisconnect ==
  /\ \E k \in DOMAIN ess : ess[k].state = "closed" /\ ess[k].job = cjob
  /\ ClientDisconnect

RelayNext ==
  \/ \E valid \in BOOLEAN : page.nsub < MaxSubmits /\ onSubmit(valid)
  \/ \E insertFails \in BOOLEAN : PageRequest(insertFails)
  \/ \E k \in DOMAIN subs, answer \in WorkerAnswers : SubmitFetch(k, answer)
  \/ \E k \in DOMAIN subs, storeFails \in BOOLEAN : SubmitMarkError(k, storeFails)
  \/ \E k \in DOMAIN subs : PageReceive(k)
  \/ \E k \in DOMAIN ess : StreamRequest(k)
  \/ \E body \in StreamBodies \cup LogsBodies :
       ncalls + nlogs < MaxCalls /\ ResultPOST(body, FALSE)
  \/ \E blank \in BOOLEAN : ncalls + nlogs < MaxCalls /\ WorkerAppendLog(1, blank)
  \/ Unmount
  \/ PageDisconnect

RelaySpec == RelayInit /\ [][RelayNext]_vars

----------------------------------------------------------------------------
(* Specification of the three endpoints under the requests of any HTTP     *)
(* client: GET /api/stream?jobId=<id> is served to whoever asks, whatever  *)
(* the Submit answer for <id> was                                          *)

ServerNext ==
  \/ \E parseFails, insertFails \in BOOLEAN :
       Len(subs) < MaxSubmits /\ SubmitInsert(parseFails, insertFails)
  \/ \E k \in DOMAIN subs, answer \in WorkerAnswers : SubmitFetch(k, answer)
  \/ \E k \in DOMAIN subs, storeFails \in BOOLEAN : SubmitMarkError(k, storeFails)
  \/ \E body \in StreamBodies : ncalls + nlogs < MaxCalls /\ ResultPOST(body, FALSE)
  \/ \E id \in {0, 1} : Connect(id)
  \/ ClientDisconnect

ServerSpec == RelayInit /\ [][ServerNext]_vars

----------------------------------------------------------------------------
(* Specification of the client controller: the page against every answer   *)
(* and every stream event a server can give it                             *)

ClientNext ==
  \/ \E valid \in BOOLEAN : page.nsub < MaxClicks /\ onSubmit(valid)
  \/ \E ans \in SubmitAnswers : onSubmitResume(ans)
  \/ \E k \in DOMAIN ess : onOpen(k)
  \/ \E k \in DOMAIN ess, msg \in {"l1", " "} : page.nev < MaxEvents /\ onLog(k, msg)
  \/ \E k \in DOMAIN ess, raw \in {safeJson(JObj("ok")), "oops"} : onResult(k, raw)
  \/ \E k \in DOMAIN ess, raw \in {"", "boom"}, fatal \in BOOLEAN : onError(k, raw, fatal)
  \/ Unmount
  \/ clearLines

ClientSpec == Init /\ [][ClientNext]_vars

----------------------------------------------------------------------------
(* Properties of the stream endpoint *)

RECURSIVE CountEvents(_, _)
CountEvents(chunks, events) ==
  IF chunks = <<>> THEN 0
  ELSE (IF Head(chunks).event \in events THEN 1 ELSE 0) + CountEvents(Tail(chunks), events)

TerminalEvents == {"result", "error"}

\* the request handler waits at line 49 for a write that no reader takes
Halted == cpc = "w_conn" /\ ~WriteResolves

\* no handler invocation is between two awaits and nothing is left to deliver
HandlersIdle == \A k \in DOMAIN handlers : handlers[k].pc \in {"done", "threw"}

\* nothing of the connection is left to run
Quiescent ==
  /\ cpc \in {"returned", "bad_request"} \/ Halted
  /\ HandlersIdle
  /\ (pending = <<>> \/ channel # "subscribed")

\* a request with a jobId is being served
Open == cpc \notin {"idle", "bad_request"}

\* this step is the request GET /api/stream?jobId=id, id not empty
Requests(id) == cpc = "idle" /\ cpc' \notin {"idle", "bad_request"} /\ cjob' = id

\* a terminal row as the specification means it: error, or done with a result
ClaimTerminal(row) ==
  row.status = "error" \/ (row.status = "done" /\ row.result # JNull)

\* C2: when a callback commits a terminal state (error, or done with a
\* non-null result) for the job of a connection that is open and whose
\* client does not disconnect, the connection emits the terminal event and
\* closes: it is never at rest on a terminal job with nothing emitted.  (The
\* window of the claim begins at the connection's row read; the commit is
\* taken here from the moment the request is being served.)
C2_TerminalCommitIsRelayed ==
  [][(/\ Open /\ ~aborted /\ cjob \in DOMAIN jobs
      /\ ~ClaimTerminal(jobs[cjob]) /\ ClaimTerminal(jobs'[cjob])
      /\ Quiescent')
     => (CountEvents(out', TerminalEvents) >= 1 /\ wclosed')]_vars

\* the events a connection writes for a row that is done with a result
LogChunks(lines) == [i \in DOMAIN lines |-> [event |-> "log", data |-> lines[i]]]
IsPrefix(a, b) == Len(a) <= Len(b) /\ SubSeq(b, 1, Len(a)) = a
ExpectedDone(row) ==
  <<[event |-> "log", data |-> "connected"]>>
  \o LogChunks(SelectSeq(row.logs.v, LAMBDA l : l \notin {"", " "}))
  \o <<[event |-> "result", data |-> "{\"summary\":\"ok\"}"]>>

\* C3: for a job whose row at connection time is done with a non-null
\* result, the connection writes the acknowledgment, the stored non-blank
\* log lines in order, then exactly one result event, closes the output, and
\* creates no channel: it is never at rest having written less.
C3_DoneAtConnectIsHistoryOnly ==
  [][\A id \in DOMAIN jobs :
       (Requests(id) /\ jobs[id].status = "done" /\ jobs[id].result # JNull) =>
         /\ channel' = "none" /\ ~listener'
         /\ IsPrefix(out', ExpectedDone(jobs[id]))
         /\ Quiescent' => (out' = ExpectedDone(jobs[id]) /\ wclosed' /\ closed')]_vars

\* C4: for a job that goes from running to error while a connection is open
\* on it (the client staying connected), the connection receives exactly one
\* error event, its output is closed and its subscription removed: it is
\* never at rest short of that.
C4_RunningToErrorOneErrorEvent ==
  [][(/\ Open /\ ~aborted /\ cjob \in DOMAIN jobs
      /\ jobs[cjob].status = "running" /\ jobs'[cjob].status = "error"
      /\ Quiescent')
     => (/\ CountEvents(out', {"error"}) = 1
         /\ wclosed'
         /\ channel' = "removed")]_vars

\* C5: for a job that a callback moves to done with result R while a
\* connection is open on it (the client staying connected), the connection
\* emits a result event whose data is the JSON text of R, removes the
\* subscription and closes the output: it is never at rest short of that.
C5_DoneWithResultIsRelayed ==
  [][(/\ Open /\ ~aborted /\ cjob \in DOMAIN jobs
      /\ jobs[cjob].status # "done"
      /\ jobs'[cjob].status = "done" /\ jobs'[cjob].result # JNull
      /\ Quiescent')
     => (/\ \E i \in DOMAIN out' :
              out'[i] = [event |-> "result", data |-> safeJson(jobs'[cjob].result)]
         /\ wclosed'
         /\ channel' = "removed")]_vars

\* C6: after a client disconnect at any point of the connection's life, the
\* connection ends with no subscription registered and its output closed.
C6_DisconnectReleases ==
  (aborted /\ Quiescent) => (channel # "subscribed" /\ wclosed)

LogEvents == SelectSeq(out, LAMBDA c : c.event = "log")

\* C7: log events are written in the order of the job's log sequence: the
\* replay writes the non-blank entries of the row of the connection, in
\* index order, after the acknowledgment; the connection is never at rest
\* with other log events than these.
C7_LogOrder ==
  [][\A id \in DOMAIN jobs :
       (Requests(id) /\ Quiescent') =>
         LogEvents' = <<[event |-> "log", data |-> "connected"]>>
                      \o LogChunks(SelectSeq(jobs[id].logs.v,
                                             LAMBDA l : l \notin {"", " "}))]_vars

----------------------------------------------------------------------------
(* Properties of the callback endpoint *)

JobFields == {"status", "progress", "message", "result", "error"}

\* C8: after each callback call, every Job field among status, progress,
\* message, result and error that is not present in the call's body has the
\* value it had before the call.
C8_AbsentFieldsUnchanged ==
  [][\A body \in StoreBodies, storeFails \in BOOLEAN :
       ResultPOST(body, storeFails) =>
         \A id \in DOMAIN jobs : \A f \in JobFields \ DOMAIN body :
           jobs'[id][f] = jobs[id][f]]_vars


C8_Witness ==
  /\ 1 \in DOMAIN jobs
  /\ jobs[1].status = "running"
  /\ jobs[1].progress = 40
  /\ jobs[1].message = "processing"

\* the claim of C9 for a request body that is JSON: a wrong or missing
\* secret is answered 401 with every row unchanged; no 401 without a
\* configured secret
SecretChecked ==
  \A body \in StoreBodies, storeFails \in BOOLEAN :
    ResultPOST(body, storeFails) =>
      /\ (secretCfg # "" /\ (~Has(body, "secret") \/ body.secret # secretCfg))
           => (cbResp'.code = 401 /\ jobs' = jobs)
      /\ secretCfg = "" => cbResp'.code # 401

\* C9 as stated: a callback whose secret differs from the configured one, or
\* that carries none while one is configured, is answered 401 and leaves
\* every Job row unchanged; with no secret configured the check is skipped.
\* A request whose body is `null` or no JSON at all carries no secret.
C9_NoSecretIsUnauthorized ==
  [][/\ SecretChecked
     /\ (secretCfg # "" /\ ResultPOSTBadJson) =>
          (cbResp'.code = 401 /\ jobs' = jobs)]_vars

\* C9 (amended): a callback whose body is a JSON object and whose secret
\* differs from the configured one, or that carries none while one is
\* configured, is answered 401 and leaves every Job row unchanged; with no
\* secret configured no request is answered 401; a callback whose body is
\* `null` or no JSON is answered 500, whether or not a secret is configured,
\* and leaves every Job row unchanged.
C9_BadSecretRejected ==
  [][/\ SecretChecked
     /\ ResultPOSTBadJson => (cbResp'.code = 500 /\ jobs' = jobs)]_vars

\* with a secret configured, the second callback of a job was refused with 401
C9_Witness ==
  /\ secretCfg # ""
  /\ cbResp.code = 401
  /\ 1 \in DOMAIN jobs
  /\ ncalls = 2

Min2(a, b) == IF a < b THEN a ELSE b
Max2(a, b) == IF a > b THEN a ELSE b

\* C10: in every reachable state the stored progress of every job lies in
\* 0..100: it is the 0 the submission stores, or max(0, min(100, p)) for a
\* progress p that a callback carried.
C10_ProgressClamped ==
  \A id \in DOMAIN jobs :
    /\ jobs[id].progress \in 0..100
    /\ jobs[id].progress \in {0} \cup {Max2(0, Min2(100, p)) : p \in ProgressInputs}

C10_Witness ==
  /\ 1 \in DOMAIN jobs
  /\ jobs[1].progress = 100
  /\ ncalls = 2

\* the output is the acknowledgment followed by one error event, or a
\* beginning of that
AckThenError(chunks, complete) ==
  /\ Len(chunks) <= 2
  /\ Len(chunks) >= 1 => chunks[1] = [event |-> "log", data |-> "connected"]
  /\ Len(chunks) >= 2 => chunks[2].event = "error"
  /\ complete => Len(chunks) = 2

\* C19: when the row a connection asks for does not exist (the initial read
\* returns no row), the connection emits exactly one error event after the
\* connected acknowledgment ("job not found"), closes the output and never
\* creates a live subscription: it is never at rest short of that.
C19_FailedReadEndsWithOneError ==
  [][\A id \in {1, 2} :
       (Requests(id) /\ id \notin DOMAIN jobs) =>
         /\ channel' = "none" /\ ~listener' /\ handlers' = <<>>
         /\ AckThenError(out', Quiescent')
         /\ Quiescent' => (out'[2].data = "job not found" /\ wclosed' /\ closed')]_vars

\* C20: on every connection made with a non-empty jobId, the first event
\* written is a log event with data "connected", and it is written before
\* the Job row is read and before any history, result or error event.
C20_ConnectedIsWrittenFirst ==
  /\ cpc \in {"idle", "bad_request"} => out = <<>>
  /\ cpc \notin {"idle", "bad_request"} =>
       /\ cjob # 0
       /\ out # <<>>
       /\ out[1] = [event |-> "log", data |-> "connected"]
  /\ cpc = "w_conn" => (Len(out) = 1 /\ snap = NoSnap)

\* a connection for a job that is already in error: the acknowledgment is
\* the one chunk handed to the writer, and the row has not been read
C20_Witness ==
  /\ cpc = "w_conn" /\ cjob = 1 /\ jobs[1].status = "error"
  /\ out = <<[event |-> "log", data |-> "connected"]>>
  /\ snap = NoSnap

----------------------------------------------------------------------------
(* Properties of the submission endpoint *)

\* C11: every Submit request ends in exactly one of: ok:true (200) with the
\* id of the Job row this request created, distinct from the row of every
\* other request; or ok:false, which carries a job id only in the
\* dispatch-failure case (502) and none in the 500 cases (insert failed,
\* worker address missing, exception caught).
C11_SubmitOutcomes ==
  \A k \in DOMAIN subs : Responded(k) =>
    /\ \/ /\ subs[k].ok /\ subs[k].code = 200
          /\ subs[k].jobId # 0 /\ subs[k].jobId = subs[k].job
          /\ subs[k].jobId \in DOMAIN jobs
       \/ /\ ~subs[k].ok /\ subs[k].code = 502
          /\ subs[k].jobId # 0 /\ subs[k].jobId = subs[k].job
       \/ /\ ~subs[k].ok /\ subs[k].code = 500 /\ subs[k].jobId = 0
    /\ \A j \in DOMAIN subs :
         (j # k /\ subs[k].job # 0) => subs[j].job # subs[k].job

C11_Witness ==
  \E k, j, i \in DOMAIN subs :
    /\ Responded(k) /\ subs[k].ok /\ subs[k].jobId = 2
    /\ Responded(j) /\ subs[j].code = 502 /\ subs[j].jobId = 1
    /\ Responded(i) /\ subs[i].code = 500 /\ subs[i].job # 0

\* the request created its row and the dispatch then failed: the worker
\* answered a non-success status (502), or fetch threw (500 from the catch
\* block, with the worker address set)
DispatchFailed(k) ==
  /\ Responded(k) /\ subs[k].job # 0
  /\ \/ subs[k].code = 502
     \/ subs[k].code = 500 /\ n8nUrl # ""

\* C12: whenever the dispatch fails after the Job row was created (worker
\* answers non-success, or the call fails because the worker is unreachable),
\* the Job is in status error by the time Submit responds: no Job whose
\* dispatch failed is left queued.
C12_DispatchFailureMarksError ==
  \A k \in DOMAIN subs : DispatchFailed(k) => jobs[subs[k].job].status = "error"

\* C13: when the worker dispatch returns a non-success status, Submit
\* responds ok:false, 502, with the job's id, and any stream connection
\* opened for that id after the response emits an error event on the
\* history-only path and closes, never creating a live subscription.
C13_RejectedDispatchStreamsError ==
  [][\A k \in DOMAIN subs :
       (Responded(k) /\ subs[k].code = 502) =>
         /\ ~subs[k].ok /\ subs[k].jobId = subs[k].job /\ subs[k].jobId # 0
         /\ Requests(subs[k].jobId) =>
              /\ channel' = "none" /\ ~listener' /\ handlers' = <<>>
              /\ CountEvents(out', {"result"}) = 0
              /\ Quiescent' =>
                   /\ CountEvents(out', {"error"}) = 1
                   /\ out'[Len(out')].event = "error"
                   /\ wclosed']_vars

----------------------------------------------------------------------------
(* Properties of the Job Store *)

TerminalStatuses == {"done", "error"}

\* C14: once a Job's status is terminal (done or error) it is never changed
\* again: over any sequence of callback calls a Job makes at most one
\* transition into a terminal status and none out of one.
C14_TerminalStatusIsFinal ==
  [][\A id \in DOMAIN jobs :
       jobs[id].status \in TerminalStatuses => jobs'[id].status = jobs[id].status]_vars

\* C15: in every reachable state of the Job Store, a Job has a non-null
\* result only if its status is done, and a non-null error only if its
\* status is error.
C15_ResultAndErrorMatchStatus ==
  \A id \in DOMAIN jobs :
    /\ jobs[id].result # JNull => jobs[id].status = "done"
    /\ jobs[id].error # JNull => jobs[id].status = "error"

\* C24: no operation of the subsystem changes a Job's logs: every step
\* other than the external worker's own append leaves the logs of every Job
\* as they were, and a row is created with the column default; neither the
\* submit insert and update nor the callback patch includes logs, and the
\* stream connection only reads.
C24_LogsNeverWritten ==
  [][nlogs' = nlogs =>
       \A id \in DOMAIN jobs' :
         jobs'[id].logs = (IF id \in DOMAIN jobs THEN jobs[id].logs ELSE LogsNull)]_vars

\* the page's submission was accepted and it is streaming, a callback
\* carrying a logs array and one setting the error status were applied, the
\* page's stream request is being served: the logs are the default
C24_Witness ==
  /\ jobs # <<>>
  /\ page.phase = "streaming" /\ page.jobId = 1
  /\ jobs[1].message = "with logs" /\ jobs[1].status = "error"
  /\ jobs[1].logs = LogsNull
  /\ cpc = "w_conn" /\ cjob = 1

----------------------------------------------------------------------------
(* Properties of the client controller *)

\* the EventSources whose readyState is not CLOSED
LiveSources == {k \in DOMAIN ess : ess[k].state # "closed"}

\* C16: after the client has received a terminal signal on its stream (a
\* result event, an error event, or a transport error), and until a new
\* submission, its phase is done or error, never streaming; the EventSource
\* is closed; and no stream connection is opened on its own: an EventSource
\* is constructed only by onSubmit and none is left to reconnect.
C16_TerminalSignalEndsStreaming ==
  /\ \A k \in DOMAIN ess : ess[k].term => ess[k].state = "closed"
  /\ (/\ page.mounted
      /\ ess # <<>> /\ ess[Len(ess)].term
      /\ page.jobId = ess[Len(ess)].job) =>
        (page.phase \in {"done", "error"} /\ LiveSources = {})
  /\ Len(ess) <= page.nsub

C16_Witness ==
  /\ page.mounted /\ Len(ess) = 2
  /\ ess[1].term /\ ess[2].term
  /\ ess[2].closure = "done"
  /\ page.phase = "error" /\ page.fatalError = StreamErrorText

\* the messages of the server-sent error events the page is given
ErrorMessages == {"boom"}

\* C22: after the client receives a server-sent error event carrying
\* message m, the message it ends up displaying (fatalError) is m, its phase
\* is error and its EventSource is closed.
C22_ErrorEventMessageShown ==
  [][\A k \in DOMAIN ess, m \in ErrorMessages, fatal \in BOOLEAN :
       (page.mounted /\ onError(k, m, fatal)) =>
         /\ page'.fatalError = m
         /\ page'.phase = "error"
         /\ ess'[k].state = "closed"]_vars

\* a submission that succeeded: HTTP success, ok true and a jobId present
Succeeded(ans) ==
  ans.kind = "json" /\ ans.http \in 200..299 /\ ans.ok /\ ans.jobId # 0

\* C23: the client opens a stream connection only after a submission that
\* succeeded, and for the jobId that response returned; after a failed
\* submission, including a 502 response that carries a jobId, the phase
\* becomes error and no stream connection is opened.
C23_StreamOnlyAfterSuccessfulSubmit ==
  [][/\ \A ans \in SubmitAnswers :
          onSubmitResume(ans) =>
            IF Succeeded(ans)
              THEN /\ Len(ess') = Len(ess) + 1
                   /\ ess'[Len(ess')].job = ans.jobId
                   /\ ess'[Len(ess')].state = "connecting"
              ELSE /\ ess' = ess
                   /\ page.mounted => page'.phase = "error"
     /\ Len(ess') # Len(ess) =>
          \E ans \in SubmitAnswers : Succeeded(ans) /\ onSubmitResume(ans)]_vars

\* a first submission opened the stream of job 2; a second one was answered
\* 502 with a jobId and opened none
C23_Witness ==
  /\ page.nsub = 2 /\ page.pc = "idle"
  /\ page.phase = "error" /\ page.fatalError = "n8n error"
  /\ Len(ess) = 1 /\ ess[1].job = 2 /\ ess[1].state = "closed"

\* C25: at every moment the page holds at most one open EventSource: over
\* any sequence of submissions, stream events and unmount, an EventSource
\* that esRef no longer references has been closed, and unmount closes the
\* referenced one.
C25_AtMostOneOpenEventSource ==
  [][/\ Cardinality(LiveSources') <= 1
     /\ \A k \in DOMAIN ess' : k # page'.esRef => ess'[k].state = "closed"
     /\ (page.mounted /\ ~page'.mounted) => LiveSources' = {}]_vars

\* a first stream ended by an event, a second one closed by the unmount
C25_Witness ==
  /\ ~page.mounted
  /\ Len(ess) = 2
  /\ ess[1].term /\ ess[1].state = "closed"
  /\ ~ess[2].term /\ ess[2].state = "closed"
====
